---- MODULE Spec2Model ----
(***************************************************************************)
(* piston/resource.py: the Resource dispatcher.  One request travels       *)
(* through Resource.__call__; every action below is a stretch of that      *)
(* method (or one iteration of the loop of Resource.authenticate), and pc  *)
(* is the position reached.  The range block of __call__ (get_range and    *)
(* the slicing around it) is modelled by the actions of SpecRange.         *)
(***************************************************************************)
EXTENDS Integers, Sequences, FiniteSets, TLC

\* ------------------------------------------------------------------ bounds
MaxAuth == 3      \* longest list of authentication strategies
MaxTotal == 3     \* largest QuerySet.count()
MaxIdx == 3       \* largest integer carried by a range header or paging parameter

\* --------------------------------------------------------------- values
\* Python's None / an optional integer: <<>> is None, <<n>> is the integer n.
None == <<>>
Some(n) == <<n>>
Val(x) == x[1]

Verbs == {"GET", "POST", "PUT", "DELETE", "PATCH", "HEAD"}
MethodNames == {"read", "create", "update", "delete"}

\* Sets of verbs a handler declares in allowed_methods.
AllowedSets ==
    { {"GET", "POST", "PUT", "DELETE"}, {"GET"}, {"GET", "POST", "PATCH", "HEAD"} }

\* Sets of CRUD methods a handler object exposes.
MethodSets == { {}, {"read"}, {"read", "create", "update", "delete"} }

\* Resource.callmap
callmap ==
    [v \in {"GET", "POST", "PUT", "DELETE"} |->
        CASE v = "GET" -> "read"
          [] v = "POST" -> "create"
          [] v = "PUT" -> "update"
          [] v = "DELETE" -> "delete"]

callmap_get_override(verb) ==
    IF verb \in DOMAIN callmap THEN callmap[verb] ELSE "update"

\* self.callmap.get(rm, '')
callmap_get(verb) == IF verb \in DOMAIN callmap THEN callmap[verb] ELSE ""

\* getattr(handler, name, None): the method, or None (FALSE) when the handler
\* has no attribute of that name; no handler has an attribute named ''.
getattr_meth(exposed, name) == name \in exposed

\* The emitters registered with Emitter (Emitter.get raises ValueError for
\* any other name).
Emitters == {"json", "xml"}

\* Resource.determine_emitter: the route's emitter_format, else the query's
\* format parameter, else 'json'.  Arguments are optional strings
\* (<<>> or <<name>>); an empty kwargs value falls through like an absent one.
determine_emitter(kw, q) ==
    IF kw # <<>> /\ kw[1] # "" THEN kw[1]
    ELSE IF q # <<>> THEN q[1] ELSE "json"

\* ------------------------------------------------------------ responses
\* An HttpResponse / the way control left __call__.
\*   kind: "none" (still running), "response" (returned), "raised"
\*   status: HTTP status (0 when raised or none)
\*   content: what the body holds, as a set of parts
\*   items: the serialized collection items
\*   content_range: the Content-Range header, <<>> or <<"items", s, e, t>>
\*   exc: the exception that left the call
\*   of: for a challenge response, the strategy whose challenge produced it
Response(status, content) ==
    [kind |-> "response", status |-> status, content |-> content,
     items |-> <<>>, content_range |-> <<>>, exc |-> "", of |-> 0]

Raised(exc) ==
    [kind |-> "raised", status |-> 0, content |-> {},
     items |-> <<>>, content_range |-> <<>>, exc |-> exc, of |-> 0]

NoResponse ==
    [kind |-> "none", status |-> 0, content |-> {},
     items |-> <<>>, content_range |-> <<>>, exc |-> "", of |-> 0]

\* authenticator.challenge(): the response of strategy i's challenge
challenge(i) == [Response(401, {"Authorization Required"}) EXCEPT !.of = i]

\* utils.rc as used by resource.py
rc_BAD_REQUEST == Response(400, {"Bad Request"})
rc_NOT_FOUND == Response(404, {"Not Found"})
rc_BAD_RANGE == Response(416, {"Requested Range Not Satisfiable"})

\* The value a handler method produced (or error_handler put in its place).
\*   kind: "none", "plain", "queryset", "response"
\*   items: the items of a queryset, in order
\*   status, content: of a response; content: of a plain value
Result(kind, items, status, content) ==
    [kind |-> kind, items |-> items, status |-> status, content |-> content]

NoResult == Result("none", <<>>, 0, {})

\* A QuerySet of t items: item k of the collection is the number k.
QuerySet(t) == Result("queryset", [k \in 1..t |-> k - 1], 0, {})

\* QuerySet.count()
count(r) == Len(r.items)

\* What a handler method can do when invoked.
MethOutcomes ==
    {"plain", "queryset", "response", "TypeError", "FormValidationError",
     "Http404", "HttpStatusCode", "Exception"}

\* What the emitter's render / stream_render can do.
RenderOutcomes == {"ok", "Http404", "HttpStatusCode", "Exception"}

\* HandlerMethod(meth).signature: '' for a method taking only the request.
Signatures == {"", "id, slug"}

\* ----------------------------------------------------- parameter blocks
\* A parameter key is the sequence of the pieces of its text, so that
\* <<"oauth_", "token">> spells 'oauth_token' and <<"x", "oauth_">> 'xoauth_'.
Keys == { <<"oauth_", "token">>, <<"a">>, <<"x", "oauth_">> }

\* k.startswith(prefix)
startswith(k, prefix) == Len(k) >= 1 /\ k[1] = prefix

\* A parameter block (a QueryDict): a function from its keys to their values.
Dict(keys) == [k \in keys |-> IF startswith(k, "oauth_") THEN "secret" ELSE "1"]
Dicts == { Dict(ks) : ks \in SUBSET Keys }

\* The verb-keyed blocks cleanup_request walks.
Blocks == {"GET", "PUT", "POST", "DELETE"}

\* getattr(request, method_type, { }): an attribute the request does not
\* have (None) reads as the empty block.
getattr_block(req, method_type) ==
    IF req[method_type] = None THEN Dict({}) ELSE Val(req[method_type])

\* True in [ k.startswith("oauth_") for k in block.keys() ]
has_oauth(block) == \E k \in DOMAIN block : startswith(k, "oauth_")

\* sanitized = block.copy() with every key that starts with 'oauth_' popped
sanitized(block) ==
    [k \in {j \in DOMAIN block : ~startswith(j, "oauth_")} |-> block[k]]

\* Resource.cleanup_request: each of the four blocks is replaced by its
\* sanitized copy when it holds an oauth_ key; nothing else of the request
\* (request.data among it) is touched.
cleanup_request(req) ==
    [a \in DOMAIN req |->
        IF a \in Blocks /\ has_oauth(getattr_block(req, a))
        THEN Some(sanitized(getattr_block(req, a)))
        ELSE req[a]]

\* A request as it arrives: its GET and POST blocks, a DELETE block when
\* something upstream set one, and `decoded`, what translate_mime puts in
\* request.data (None when it leaves request.data unset, as for a
\* form-encoded body).
Received(get, post, delete, decoded) ==
    [GET |-> get, POST |-> post, DELETE |-> delete, decoded |-> decoded]

\* The request object built from it: no PUT block and no data yet.
\*   data: request.data, None while the attribute does not exist
\*   data_from: what bound request.data: "none", "translate_mime", "POST", "PUT"
request_object(rcv) ==
    [GET |-> Some(rcv.GET), POST |-> Some(rcv.POST), PUT |-> None,
     DELETE |-> rcv.DELETE, data |-> None, data_from |-> "none"]

\* The one request the runs of Spec carry: a form-encoded body, with an
\* oauth_ key in the query string and in the body.
Requests ==
    { Received(Dict({<<"oauth_", "token">>, <<"a">>}),
               Dict({<<"oauth_", "token">>, <<"a">>}), None, None) }

\* The requests of SpecRequest.
WideRequests ==
    { Received(g, p, d, j) :
        g \in Dicts, p \in Dicts,
        d \in {None, Some(Dict({<<"oauth_", "token">>, <<"a">>}))},
        j \in {None, Some(Dict({<<"oauth_", "token">>, <<"x", "oauth_">>}))} }

\* ---------------------------------------------------------------- state
VARIABLES
    pc,              \* position in __call__
    rm,              \* request.method.upper()
    body_ok,         \* translate_mime can decode the request body
    authentication,  \* self.authentication: what each strategy's is_authenticated answers
    anon,            \* self.anonymous: [exists, allowed_methods]
    allowed_methods, \* self.handler.allowed_methods
    is_anonymous,    \* self.handler.is_anonymous ("True" / "False")
    display_errors,  \* self.display_errors
    idx,             \* authenticate: index of the next strategy of the loop
    calls,           \* how often is_authenticated ran, per strategy
    actor,           \* authenticate's first result: [kind, of]
    anonymous,       \* authenticate's second result: "True", "False", "CHALLENGE"
    steps,           \* the pipeline steps that have run
    meth_calls,      \* invocations of a handler method
    em_format,       \* the requested output format
    sig,             \* HandlerMethod(meth).signature
    result,          \* local `result`
    status_code,     \* local `status_code`
    outcome,         \* what __call__ returned or raised
    meth,            \* local `meth`: the name of the resolved method
    range_in,        \* the request's range header and paging parameters
    request_range,   \* local `request_range`: <<>> or <<start, end>>
    total,           \* local `total`
    content_range,   \* local `content_range`
    meth_outcome,    \* what the invoked method did
    render_outcome,  \* what the emitter's rendering did
    received,        \* the request as it arrived
    request          \* the request object: its parameter blocks and data

vars ==
    <<pc, rm, body_ok, authentication, anon, allowed_methods, is_anonymous,
      display_errors, idx, calls, actor, anonymous, steps, meth_calls,
      em_format, sig, result, status_code, outcome, meth, range_in,
      request_range, total, content_range,
      meth_outcome, render_outcome, received, request>>

cfgVars == <<rm, body_ok, authentication, anon, allowed_methods, is_anonymous,
             display_errors, received>>
authVars == <<idx, calls, actor, anonymous>>
rangeVars == <<range_in, request_range, total, content_range>>

CHALLENGE == "CHALLENGE"

Actor(kind, of) == [kind |-> kind, of |-> of]

NoRangeIn ==
    [header |-> [kind |-> "absent", s |-> None, e |-> None],
     offset |-> [given |-> FALSE, v |-> None],
     limit |-> [given |-> FALSE, v |-> None]]

AuthLists ==
    UNION { [1..n -> BOOLEAN] : n \in 1..MaxAuth }

Anons ==
    {[exists |-> FALSE, allowed_methods |-> {}]} \cup
    {[exists |-> TRUE, allowed_methods |-> s] : s \in {{"GET"}, {"GET", "POST", "PATCH"}}}

\* The state at entry to __call__, for every resource configuration and request.
Init ==
    /\ pc = "call"
    /\ rm \in Verbs
    /\ body_ok \in BOOLEAN
    /\ authentication \in AuthLists
    /\ anon \in Anons
    /\ allowed_methods \in AllowedSets
    /\ is_anonymous \in {"True", "False"}
    /\ display_errors \in BOOLEAN
    /\ idx = 1
    /\ calls = [i \in DOMAIN authentication |-> 0]
    /\ actor = Actor("False", 0)
    /\ anonymous = "True"
    /\ steps = {}
    /\ meth_calls = 0
    /\ em_format = ""
    /\ sig = ""
    /\ result = NoResult
    /\ status_code = 0
    /\ outcome = NoResponse
    /\ meth = ""
    /\ range_in = NoRangeIn
    /\ request_range = <<>>
    /\ total = 0
    /\ content_range = <<>>
    /\ meth_outcome = "none"
    /\ render_outcome = "none"
    /\ received \in Requests
    /\ request = request_object(received)

\* __call__ returns `resp`
Return(resp) == outcome' = resp /\ pc' = "done"

\* ------------------------------------------------------- __call__, entry
\* rm = request.method.upper(); coerce_put_post for a PUT, which makes
\* request.PUT the block parsed from the body; then authenticate is entered.
Enter ==
    /\ pc = "call"
    /\ steps' = IF rm = "PUT" THEN steps \cup {"coerce_put_post"} ELSE steps
    /\ request' = IF rm = "PUT"
                  THEN [request EXCEPT !.PUT = request.POST]
                  ELSE request
    /\ pc' = "authenticate"
    /\ UNCHANGED <<cfgVars, authVars, meth_calls, em_format, sig, result,
                   status_code, outcome, meth, rangeVars,
                   meth_outcome, render_outcome>>

\* ----------------------------------------------------------- authenticate
\* The branch of the loop taken when a strategy does not authenticate.
NotAuthenticatedKeepFirst(i, cur) ==
    IF anon.exists /\ rm \in anon.allowed_methods
    THEN <<Actor("anonymous", 0), "True">>
    ELSE IF cur[2] = CHALLENGE THEN cur
         ELSE <<Actor("challenge", i), CHALLENGE>>

NotAuthenticated(i, cur) ==
    IF anon.exists /\ rm \in anon.allowed_methods
    THEN <<Actor("anonymous", 0), "True">>
    ELSE <<Actor("challenge", i), CHALLENGE>>

\* A loop that keeps going after a strategy authenticated.
AuthLoopNoReturn ==
    /\ pc = "authenticate"
    /\ idx <= Len(authentication)
    /\ calls' = [calls EXCEPT ![idx] = @ + 1]
    /\ idx' = idx + 1
    /\ IF authentication[idx]
       THEN /\ actor' = Actor("handler", 0)
            /\ anonymous' = is_anonymous
       ELSE LET na == NotAuthenticated(idx, <<actor, anonymous>>)
            IN /\ actor' = na[1]
               /\ anonymous' = na[2]
    /\ pc' = pc
    /\ UNCHANGED <<cfgVars, steps, meth_calls, em_format, sig, result,
                   status_code, outcome, meth, rangeVars,
                   meth_outcome, render_outcome, request>>

\* One iteration of `for authenticator in self.authentication`.
AuthLoop ==
    /\ pc = "authenticate"
    /\ idx <= Len(authentication)
    /\ calls' = [calls EXCEPT ![idx] = @ + 1]
    /\ IF authentication[idx]
       THEN /\ actor' = Actor("handler", 0)
            /\ anonymous' = is_anonymous
            /\ idx' = idx
            /\ pc' = "authenticated"
       ELSE LET na == NotAuthenticated(idx, <<actor, anonymous>>)
            IN /\ actor' = na[1]
               /\ anonymous' = na[2]
               /\ idx' = idx + 1
               /\ pc' = pc
    /\ UNCHANGED <<cfgVars, steps, meth_calls, em_format, sig, result,
                   status_code, outcome, meth, rangeVars,
                   meth_outcome, render_outcome, request>>

\* The loop ran out of strategies: return actor, anonymous.
AuthExit ==
    /\ pc = "authenticate"
    /\ idx > Len(authentication)
    /\ pc' = "authenticated"
    /\ UNCHANGED <<cfgVars, authVars, steps, meth_calls, em_format, sig,
                   result, status_code, outcome, meth, rangeVars,
                   meth_outcome, render_outcome, request>>

\* ------------------------------------------------ __call__, after authenticate
\* handler.allowed_methods of the actor that became `handler`.
handler_allowed(a) ==
    IF a.kind = "handler" THEN allowed_methods
    ELSE IF a.kind = "anonymous" THEN anon.allowed_methods
    ELSE {}

\* A challenge that is not returned: the pipeline goes on with the actor.
ChallengeFallThrough ==
    /\ pc = "authenticated"
    /\ anonymous = CHALLENGE
    /\ pc' = "resolve"
    /\ UNCHANGED <<cfgVars, authVars, steps, meth_calls, em_format, sig,
                   result, status_code, outcome, meth, rangeVars,
                   meth_outcome, render_outcome, request>>

\* if anonymous is CHALLENGE: return actor()
Challenge ==
    /\ pc = "authenticated"
    /\ anonymous = CHALLENGE
    /\ Return(challenge(actor.of))
    /\ UNCHANGED <<cfgVars, authVars, steps, meth_calls, em_format, sig,
                   result, status_code, meth, rangeVars,
                   meth_outcome, render_outcome, request>>

\* A decode failure that is swallowed instead of answered.
DecodeIgnoreError ==
    /\ pc = "authenticated"
    /\ anonymous # CHALLENGE
    /\ steps' = IF rm \in {"POST", "PUT"}
                THEN steps \cup {"translate_mime"} ELSE steps
    /\ pc' = "resolve"
    /\ UNCHANGED <<cfgVars, authVars, meth_calls, em_format, sig, result,
                   status_code, outcome, meth, rangeVars,
                   meth_outcome, render_outcome, request>>

\* request.data after a translate_mime that raised nothing: what
\* translate_mime decoded, or, when it set no data attribute, the very
\* object that request.POST (for a POST) or request.PUT is at that moment.
bind_data(req, decoded, verb) ==
    IF decoded # None
    THEN [req EXCEPT !.data = decoded, !.data_from = "translate_mime"]
    ELSE IF verb = "POST"
    THEN [req EXCEPT !.data = req.POST, !.data_from = "POST"]
    ELSE [req EXCEPT !.data = req.PUT, !.data_from = "PUT"]

\* handler = actor; for POST and PUT translate_mime(request), answering
\* rc.BAD_REQUEST on MimerDataException, and the binding of request.data.
Decode ==
    /\ pc = "authenticated"
    /\ anonymous # CHALLENGE
    /\ IF rm \in {"POST", "PUT"}
       THEN /\ steps' = steps \cup {"translate_mime"}
            /\ IF body_ok
               THEN /\ pc' = "resolve" /\ outcome' = outcome
                    /\ request' = bind_data(request, received.decoded, rm)
               ELSE Return(rc_BAD_REQUEST) /\ request' = request
       ELSE /\ steps' = steps
            /\ pc' = "resolve"
            /\ outcome' = outcome
            /\ request' = request
    /\ UNCHANGED <<cfgVars, authVars, meth_calls, em_format, sig, result,
                   status_code, meth, rangeVars,
                   meth_outcome, render_outcome>>

\* The allowed_methods check and the lookup of the method through callmap.
\* `exposed` are the CRUD methods the handler object has.
Resolve ==
    /\ pc = "resolve"
    /\ steps' = steps \cup {"allowed_methods"}
    /\ IF rm \notin handler_allowed(actor)
       THEN /\ Return([Response(405, {"Method Not Allowed"})
                          EXCEPT !.content = @ \cup handler_allowed(actor)])
            /\ meth' = meth
       ELSE \E exposed \in MethodSets :
              IF getattr_meth(exposed, callmap_get(rm))
              THEN /\ meth' = callmap_get(rm)
                   /\ pc' = "invoke"
                   /\ outcome' = outcome
              ELSE /\ meth' = meth
                   /\ Return(Raised("Http404"))
    /\ UNCHANGED <<cfgVars, authVars, meth_calls, em_format, sig, result,
                   status_code, rangeVars,
                   meth_outcome, render_outcome, request>>

\* Resource.error_handler(e, request, meth, em_format): the response it
\* returns, or Raised(e) when it re-raises.
error_handler(e, signature, display) ==
    CASE e = "FormValidationError" ->
            [rc_BAD_REQUEST EXCEPT !.content = @ \cup {"form errors"}]
      [] e = "TypeError" ->
            [rc_BAD_REQUEST EXCEPT !.content =
                {"Method signature does not match."}
                \cup (IF signature # "" THEN {"Signature should be:", signature}
                      ELSE {"Resource does not expect any parameters."})
                \cup (IF display THEN {"Exception was:", e} ELSE {})]
      [] e = "Http404" -> rc_NOT_FOUND
      [] e = "HttpStatusCode" -> Response(409, {"e.response"})
      [] OTHER ->
            IF display THEN Response(500, {"traceback"}) ELSE Raised(e)

\* The query strings a request to a collection carries in this model.
PagingIns ==
    { NoRangeIn,
      [NoRangeIn EXCEPT !.offset = [given |-> TRUE, v |-> Some(1)],
                        !.limit = [given |-> TRUE, v |-> Some(2)]] }

\* determine_emitter, cleanup_request, HandlerMethod(meth).signature and the
\* invocation of the method, with error_handler on any exception.
Invoke ==
    /\ pc = "invoke"
    /\ \E kw \in {<<>>, <<"bogus">>}, q \in {<<>>, <<"xml">>} :
          em_format' = determine_emitter(kw, q)
    /\ steps' = steps \cup {"determine_emitter", "cleanup_request"}
    /\ request' = cleanup_request(request)
    /\ meth_calls' = meth_calls + 1
    /\ \E s \in Signatures, o \in MethOutcomes :
        /\ sig' = s
        /\ meth_outcome' = o
        /\ CASE o = "plain" ->
                  /\ result' = Result("plain", <<>>, 0, {"value"})
                  /\ pc' = "emitter" /\ outcome' = outcome
                  /\ range_in' = range_in
             [] o = "queryset" ->
                  /\ \E t \in 0..MaxTotal : result' = QuerySet(t)
                  /\ range_in' \in PagingIns
                  /\ pc' = "emitter" /\ outcome' = outcome
             [] o = "response" ->
                  /\ result' = Result("response", <<>>, 201, {"Created"})
                  /\ pc' = "emitter" /\ outcome' = outcome
                  /\ range_in' = range_in
             [] OTHER ->
                  LET r == error_handler(o, s, display_errors)
                  IN /\ range_in' = range_in
                     /\ IF r.kind = "raised"
                        THEN Return(r) /\ result' = result
                        ELSE /\ result' = Result("response", <<>>, r.status, r.content)
                             /\ pc' = "emitter" /\ outcome' = outcome
    /\ UNCHANGED <<cfgVars, authVars, status_code, meth, request_range,
                   total, content_range, render_outcome>>

\* emitter, ct = Emitter.get(em_format), answering 400 on ValueError.
GetEmitter ==
    /\ pc = "emitter"
    /\ steps' = steps \cup {"Emitter.get"}
    /\ IF em_format \in Emitters
       THEN pc' = "unwrap" /\ outcome' = outcome
       ELSE Return([rc_BAD_REQUEST EXCEPT
                      !.content = {"Invalid output format specified", em_format}])
    /\ UNCHANGED <<cfgVars, authVars, meth_calls, em_format, sig, result,
                   status_code, meth, rangeVars,
                   meth_outcome, render_outcome, request>>

\* status_code = 200; a response result is unwrapped to its container, and
\* `msg += ...` then reads the local msg, which nothing has bound.
Unwrap ==
    /\ pc = "unwrap"
    /\ IF result.kind = "response"
       THEN /\ status_code' = result.status
            /\ result' = Result("plain", <<>>, 0, result.content)
            /\ IF sig # ""
               THEN Return(Raised("UnboundLocalError"))
               ELSE pc' = "render" /\ outcome' = outcome
       ELSE /\ status_code' = 200
            /\ result' = result
            /\ pc' = "render"
            /\ outcome' = outcome
    /\ UNCHANGED <<cfgVars, authVars, steps, meth_calls, em_format, sig,
                   meth, rangeVars,
                   meth_outcome, render_outcome, request>>

\* The body of the try block around rendering: the exception it ends with.
\* After a successful render, `msg += ...` (display_errors) or
\* format_error(msg) reads the unbound local msg.
render_try(r) == IF r = "ok" THEN "UnboundLocalError" ELSE r

\* srl.stream_render / srl.render inside the try block, and its except clauses.
Render ==
    /\ pc = "render"
    /\ \E stream \in BOOLEAN :
          steps' = steps \cup {IF stream THEN "stream_render" ELSE "render"}
    /\ \E r \in RenderOutcomes :
        /\ render_outcome' = r
        /\ LET e == render_try(r)
           IN CASE e = "Http404" -> Return(rc_NOT_FOUND)
                [] e = "HttpStatusCode" -> Return(Response(409, {"e.response"}))
                [] OTHER ->
                     IF display_errors
                     THEN Return(Response(500, {"traceback"}))
                     ELSE Return(Raised(e))
    /\ UNCHANGED <<cfgVars, authVars, meth_calls, em_format, sig, result,
                   status_code, meth, rangeVars, meth_outcome, request>>

Next ==
    \/ Enter
    \/ AuthLoop
    \/ AuthExit
    \/ Challenge
    \/ Decode
    \/ Resolve
    \/ Invoke
    \/ GetEmitter
    \/ Unwrap
    \/ Render

Spec == Init /\ [][Next]_vars

\* --------------------------------------------------- the range block
\* int(text) of a query parameter: None on ValueError / TypeError.  A
\* parameter's text is <<n>> when it spells the integer n, <<>> otherwise.
py_int(text) == IF text = <<>> THEN None ELSE Some(text[1])

\* The headers and paging parameters a request can carry.
\*   header.kind: "absent"; "other" (does not start with 'items=');
\*                "malformed" (starts with 'items=', range_re does not match);
\*                "items" (range_re matches; s and e are the two groups,
\*                <<>> for an empty group)
Digits == {None} \cup {Some(n) : n \in 0..MaxIdx}
ParamTexts == {None} \cup {Some(n) : n \in -1..MaxIdx}
Headers ==
    {[kind |-> k, s |-> None, e |-> None] : k \in {"absent", "other", "malformed"}}
    \cup {[kind |-> "items", s |-> s, e |-> e] : s \in Digits, e \in Digits}
Params ==
    {[given |-> FALSE, v |-> None]}
    \cup {[given |-> TRUE, v |-> t] : t \in ParamTexts}
RangeIns == [header : Headers, offset : Params, limit : Params]

\* get_range's results
RangeOk(s, e) == [ok |-> TRUE, start |-> s, end |-> e, err |-> ""]
BadRangeException(msg) == [ok |-> FALSE, start |-> 0, end |-> 0, err |-> msg]

\* get_range with the clamp of the end left out.
get_range_noclamp(start, end, tot) ==
    LET last == tot - 1
    IN IF start # None /\ Val(start) < 0
       THEN BadRangeException("negative ranges not allowed")
       ELSE IF end # None /\ Val(end) < 0
       THEN BadRangeException("negative ranges not allowed")
       ELSE IF start # None /\ end # None
       THEN IF Val(start) > last THEN BadRangeException("start gt last")
            ELSE IF Val(start) > Val(end) THEN BadRangeException("start lt end")
            ELSE RangeOk(Val(start), Val(end))
       ELSE IF start # None
       THEN IF Val(start) > last THEN BadRangeException("start gt last")
            ELSE RangeOk(Val(start), last)
       ELSE IF end # None
       THEN IF Val(end) > last THEN RangeOk(0, last)
            ELSE RangeOk(last - Val(end) + 1, last)
       ELSE BadRangeException("no start or end")

\* get_range(start, end, total); start and end are optional integers.
get_range(start, end, tot) ==
    LET last == tot - 1
    IN IF start # None /\ Val(start) < 0
       THEN BadRangeException("negative ranges not allowed")
       ELSE IF end # None /\ Val(end) < 0
       THEN BadRangeException("negative ranges not allowed")
       ELSE IF start # None /\ end # None
       THEN IF Val(start) > last THEN BadRangeException("start gt last")
            ELSE IF Val(start) > Val(end) THEN BadRangeException("start lt end")
            ELSE IF Val(end) > last THEN RangeOk(Val(start), last)
            ELSE RangeOk(Val(start), Val(end))
       ELSE IF start # None
       THEN IF Val(start) > last THEN BadRangeException("start gt last")
            ELSE RangeOk(Val(start), last)
       ELSE IF end # None
       THEN IF Val(end) > last THEN RangeOk(0, last)
            ELSE RangeOk(last - Val(end) + 1, last)
       ELSE BadRangeException("no start or end")

\* items[a:b] for 0 <= a, 0 <= b
py_slice(items, a, b) ==
    LET hi == IF b < Len(items) THEN b ELSE Len(items)
    IN IF a >= hi THEN <<>> ELSE [k \in 1..(hi - a) |-> items[a + k]]

\* The request_range the header and the paging parameters give:
\* <<>> (None), <<"malformed">>, or <<start, end>>.
parse_range(rin) ==
    IF rin.header.kind # "absent"
    THEN IF rin.header.kind = "items" THEN <<rin.header.s, rin.header.e>>
         ELSE IF rin.header.kind = "malformed" THEN <<"malformed">>
         ELSE <<>>
    ELSE IF rin.offset.given /\ rin.limit.given
    THEN LET offset == py_int(rin.offset.v)
             limit == py_int(rin.limit.v)
         IN IF offset # None /\ limit # None
            THEN <<offset, Some(Val(offset) + Val(limit) - 1)>>
            ELSE IF offset # None THEN <<offset, None>>
            ELSE IF limit # None THEN <<None, limit>>
            ELSE <<>>
    ELSE <<>>

\* The state on reaching `content_range = None` with a result to emit: an
\* authenticated GET whose read returned a value or a QuerySet.
InitRange ==
    /\ pc = "range"
    /\ rm = "GET"
    /\ body_ok = TRUE
    /\ authentication = <<TRUE>>
    /\ anon = [exists |-> FALSE, allowed_methods |-> {}]
    /\ allowed_methods = {"GET"}
    /\ is_anonymous = "False"
    /\ display_errors = FALSE
    /\ idx = 1
    /\ calls = <<1>>
    /\ actor = Actor("handler", 0)
    /\ anonymous = "False"
    /\ steps = {"allowed_methods", "determine_emitter", "cleanup_request"}
    /\ meth_calls = 1
    /\ em_format = "json"
    /\ sig = ""
    /\ result \in {Result("plain", <<>>, 0, {"value"})}
                      \cup {QuerySet(t) : t \in 0..MaxTotal}
    /\ status_code = 200
    /\ outcome = NoResponse
    /\ meth = "read"
    /\ range_in \in RangeIns
    /\ request_range = <<>>
    /\ total = 0
    /\ content_range = <<>>
    /\ meth_outcome = result.kind
    /\ render_outcome = "none"
    /\ received = Received(Dict({}), Dict({}), None, None)
    /\ request = request_object(received)

\* isinstance(result, QuerySet) is false: no range handling.
SkipRange ==
    /\ pc = "range"
    /\ result.kind # "queryset"
    /\ pc' = "emit"
    /\ UNCHANGED <<cfgVars, authVars, steps, meth_calls, em_format, sig,
                   result, status_code, outcome, meth, rangeVars,
                   meth_outcome, render_outcome, request>>

\* The parse of the range header or of the paging parameters.
ParseRange ==
    /\ pc = "range"
    /\ result.kind = "queryset"
    /\ LET rr == parse_range(range_in)
       IN IF rr = <<"malformed">>
          THEN /\ Return([rc_BAD_REQUEST EXCEPT
                             !.content = @ \cup {"malformed range header"}])
               /\ request_range' = request_range
          ELSE /\ request_range' = rr
               /\ pc' = "slice"
               /\ outcome' = outcome
    /\ UNCHANGED <<cfgVars, authVars, steps, meth_calls, em_format, sig,
                   result, status_code, meth, range_in, total, content_range,
                   meth_outcome, render_outcome, request>>

\* if request_range: count, get_range, slice and the content-range string,
\* answering rc.BAD_RANGE on BadRangeException.
ApplyRange ==
    /\ pc = "slice"
    /\ IF request_range # <<>>
       THEN LET t == count(result)
                r == get_range(request_range[1], request_range[2], t)
            IN /\ total' = t
               /\ IF r.ok
                  THEN /\ result' = [result EXCEPT
                                       !.items = py_slice(@, r.start, r.end + 1)]
                       /\ content_range' = <<"items", r.start, r.end, t>>
                       /\ pc' = "emit"
                       /\ outcome' = outcome
                  ELSE /\ Return([rc_BAD_RANGE EXCEPT !.content = @ \cup {r.err}])
                       /\ result' = result
                       /\ content_range' = content_range
       ELSE /\ pc' = "emit"
            /\ UNCHANGED <<result, content_range, total, outcome>>
    /\ UNCHANGED <<cfgVars, authVars, steps, meth_calls, em_format, sig,
                   status_code, meth, range_in, request_range, meth_outcome,
                   render_outcome, request>>

\* The emitter's serialization of a result
emit(r) == [Response(200, {"emitted"} \cup r.content) EXCEPT !.items = r.items]

\* The second Emitter.get, the rendering and the final response: status_code,
\* or 206 with the Content-Range header when content_range is set.
Emit ==
    /\ pc = "emit"
    /\ \E stream \in BOOLEAN :
          steps' = steps \cup {"Emitter.get",
                               IF stream THEN "stream_render" ELSE "render"}
    /\ \E r \in RenderOutcomes :
        /\ render_outcome' = r
        /\ IF r = "ok"
           THEN Return([emit(result) EXCEPT
                          !.status = IF content_range # <<>> THEN 206
                                     ELSE status_code,
                          !.content_range = content_range])
           ELSE IF r = "HttpStatusCode"
           THEN Return(Response(409, {"e.response"}))
           ELSE Return(Raised(r))
    /\ UNCHANGED <<cfgVars, authVars, meth_calls, em_format, sig, result,
                   status_code, meth, rangeVars, meth_outcome, request>>

NextRange ==
    \/ SkipRange
    \/ ParseRange
    \/ ApplyRange
    \/ Emit

SpecRange == InitRange /\ [][NextRange]_vars

\* ================================================================ claims
\* Some strategy reports the request authenticated.
Authenticates == \E i \in DOMAIN authentication : authentication[i]

\* The first strategy that does.
FirstAuth ==
    CHOOSE i \in DOMAIN authentication :
        authentication[i] /\ \A j \in 1..(i - 1) : ~authentication[j]

\* authenticate has returned.
AuthReturned == pc \notin {"call", "authenticate"}

\* An anonymous handler exists and allows the verb.
AnonymousAllows == anon.exists /\ rm \in anon.allowed_methods

Min(a, b) == IF a < b THEN a ELSE b

\* C1: a request that is authenticated, whose method returns a plain value
\* and whose recognized format renders without fault, is answered 200 with
\* the emitter's serialization of the value, and no fault leaves the call.
C1_PlainValueGives200 ==
    (/\ pc = "done"
     /\ Authenticates
     /\ meth_outcome = "plain"
     /\ em_format \in Emitters
     /\ render_outcome = "ok")
    => /\ outcome.kind = "response"
       /\ outcome.status = 200
       /\ outcome = emit(result)

\* C2: a GET whose method returns a lazy collection of T >= 1 items, with
\* offset=o and limit=l in the query (0 <= o <= T-1, l >= 1) and no range
\* header, is answered 206 with items o..min(o+l-1, T-1) and the header
\* Content-Range: items o-min(o+l-1,T-1)/T.
C2_PagingGives206 ==
    (/\ pc = "done"
     /\ rm = "GET"
     /\ meth_outcome = "queryset"
     /\ em_format \in Emitters
     /\ render_outcome = "ok"
     /\ range_in.header.kind = "absent"
     /\ range_in.offset.given /\ range_in.offset.v # None
     /\ range_in.limit.given /\ range_in.limit.v # None
     /\ Val(range_in.offset.v) \in 0..(count(result) - 1)
     /\ Val(range_in.limit.v) >= 1)
    => LET T == count(result)
           o == Val(range_in.offset.v)
           hi == Min(o + Val(range_in.limit.v) - 1, T - 1)
       IN /\ outcome.kind = "response"
          /\ outcome.status = 206
          /\ outcome.items = [k \in 1..(hi - o + 1) |-> o + k - 1]
          /\ outcome.content_range = <<"items", o, hi, T>>

\* C3: when some strategy authenticates, authenticate returns the bound
\* handler with the handler's is_anonymous flag; every strategy up to the
\* first authenticating one has been asked exactly once, and no later
\* strategy is ever asked.
C3_FirstAuthenticatedWins ==
    Authenticates =>
        /\ \A j \in DOMAIN authentication : j > FirstAuth => calls[j] = 0
        /\ AuthReturned =>
              /\ actor = Actor("handler", 0)
              /\ anonymous = is_anonymous
              /\ \A j \in 1..FirstAuth : calls[j] = 1

C3_Witness ==
    /\ AuthReturned
    /\ Len(authentication) >= 3
    /\ Authenticates
    /\ FirstAuth = 2
    /\ calls[1] = 1 /\ calls[2] = 1 /\ calls[3] = 0
    /\ actor = Actor("handler", 0)

\* C4 as stated: when no strategy authenticates and no anonymous variant
\* allows the verb, authenticate returns the challenge of the FIRST strategy
\* with the CHALLENGE sentinel.
C4_FirstStrategyChallenge ==
    (AuthReturned /\ ~Authenticates /\ ~AnonymousAllows)
    => /\ actor = Actor("challenge", 1)
       /\ anonymous = CHALLENGE

\* C4 amended: when no strategy authenticates and no anonymous variant
\* allows the verb, authenticate returns the challenge of the LAST strategy
\* of the list with the CHALLENGE sentinel.
C4_LastStrategyChallenge ==
    (AuthReturned /\ ~Authenticates /\ ~AnonymousAllows)
    => /\ actor = Actor("challenge", Len(authentication))
       /\ anonymous = CHALLENGE

C4_Witness ==
    /\ AuthReturned
    /\ ~Authenticates
    /\ ~AnonymousAllows
    /\ Len(authentication) >= 2
    /\ actor = Actor("challenge", Len(authentication))
    /\ \A j \in DOMAIN authentication : calls[j] = 1

\* request_range holds a start and an end, both supplied.
BothGiven ==
    /\ Len(request_range) = 2
    /\ request_range[1] # None
    /\ request_range[2] # None

\* C5: with start and end both supplied and non-negative and a total T >= 1,
\* get_range gives (start, min(end, T-1)) exactly when start <= T-1 and
\* start <= end, and fails with a range failure otherwise; get_range(7, 45,
\* 100) = (7, 45) and get_range(7, 150, 100) = (7, 99).
C5_BothGivenResolved ==
    /\ get_range(Some(7), Some(45), 100) = RangeOk(7, 45)
    /\ get_range(Some(7), Some(150), 100) = RangeOk(7, 99)
    /\ (/\ pc \in {"emit", "done"}
        /\ BothGiven
        /\ Val(request_range[1]) >= 0
        /\ Val(request_range[2]) >= 0
        /\ total >= 1)
       => LET s == Val(request_range[1])
              e == Val(request_range[2])
          IN IF s <= total - 1 /\ s <= e
             THEN /\ content_range = <<"items", s, Min(e, total - 1), total>>
                  /\ Len(result.items) = Min(e, total - 1) - s + 1
                  /\ outcome.status # 416
             ELSE /\ pc = "done"
                  /\ outcome.status = 416
                  /\ content_range = <<>>

C5_Witness ==
    /\ pc = "emit"
    /\ request_range = <<Some(1), Some(3)>>
    /\ total = 2
    /\ content_range = <<"items", 1, 1, 2>>
    /\ result.items = <<1>>

\* C6: whenever get_range returns a pair, for every optional start, optional
\* end and total, the pair satisfies 0 <= start <= end <= total-1, so the
\* content-range descriptor names no index outside the collection.
C6_ResolvedRangeInside ==
    content_range # <<>> =>
        /\ 0 <= content_range[2]
        /\ content_range[2] <= content_range[3]
        /\ content_range[3] <= content_range[4] - 1

\* C7: a POST or PUT that passes authentication and whose body the decoder
\* rejects is answered 400, and no handler method is ever invoked.
C7_DecodeErrorGives400 ==
    (rm \in {"POST", "PUT"} /\ ~body_ok)
    => /\ meth_calls = 0
       /\ (AuthReturned /\ anonymous # CHALLENGE /\ pc # "authenticated")
          => /\ pc = "done"
             /\ outcome = rc_BAD_REQUEST
             /\ outcome.status = 400

C7_Witness ==
    /\ pc = "done"
    /\ rm = "POST"
    /\ ~body_ok
    /\ anonymous # CHALLENGE
    /\ "translate_mime" \in steps
    /\ rm \notin handler_allowed(actor)
    /\ outcome.status = 400
    /\ meth_calls = 0

\* C8: when the invoked method raises TypeError, the call answers 400 with
\* the expected signature in the body, with the raw fault text exactly when
\* display_errors is set; no fault leaves the call and no 500 results.
C8_TypeErrorGives400 ==
    (/\ pc = "done"
     /\ meth_outcome = "TypeError"
     /\ sig # ""
     /\ em_format \in Emitters
     /\ render_outcome \in {"none", "ok"})
    => /\ outcome.kind = "response"
       /\ outcome.status = 400
       /\ sig \in outcome.content
       /\ ("Exception was:" \in outcome.content) <=> display_errors

\* C9 as stated: an authenticated request with a verb outside callmap ends in
\* NotFound whatever verbs the handler allows, and no method is invoked.
C9_UnmappedVerbNotFound ==
    (pc = "done" /\ Authenticates /\ rm \notin DOMAIN callmap)
    => /\ outcome = Raised("Http404")
       /\ meth_calls = 0

\* C9 amended: an authenticated request with a verb outside callmap ends in
\* NotFound when the handler allows the verb and in 405 Method Not Allowed
\* when it does not; in both cases no method is invoked.
C9_UnmappedVerbNotFoundOrNotAllowed ==
    (Authenticates /\ rm \notin DOMAIN callmap)
    => /\ meth_calls = 0
       /\ pc \in {"call", "authenticate", "authenticated", "resolve", "done"}
       /\ pc = "done" =>
             IF rm \in allowed_methods
             THEN outcome = Raised("Http404")
             ELSE outcome.kind = "response" /\ outcome.status = 405

C9_Witness ==
    /\ pc = "done"
    /\ Authenticates
    /\ rm = "PATCH"
    /\ rm \in allowed_methods
    /\ "allowed_methods" \in steps
    /\ outcome = Raised("Http404")

\* C10: when authenticate yields CHALLENGE, the call returns the response of
\* the challenge and nothing of the pipeline after authenticate runs: no
\* decoding, no allowed-verb check, no sanitization, no method invocation,
\* no emitter lookup, no serialization.
C10_ChallengeReturnsAtOnce ==
    (AuthReturned /\ anonymous = CHALLENGE)
    => /\ pc \in {"authenticated", "done"}
       /\ steps \subseteq {"coerce_put_post"}
       /\ meth_calls = 0
       /\ pc = "done" => outcome = challenge(actor.of)

C10_Witness ==
    /\ pc = "done"
    /\ anonymous = CHALLENGE
    /\ rm = "PUT"
    /\ outcome = challenge(Len(authentication))
    /\ steps = {"coerce_put_post"}

\* ------------------------------------------------ requests with parameters
\* The state at entry to __call__ for every request of WideRequests, on a
\* resource whose handler allows the four mapped verbs.
InitRequest ==
    /\ pc = "call"
    /\ rm \in {"GET", "POST", "PUT", "DELETE"}
    /\ body_ok = TRUE
    /\ authentication \in {<<TRUE>>, <<FALSE>>}
    /\ anon \in {[exists |-> FALSE, allowed_methods |-> {}],
                 [exists |-> TRUE, allowed_methods |-> {"GET", "POST", "PATCH"}]}
    /\ allowed_methods = {"GET", "POST", "PUT", "DELETE"}
    /\ is_anonymous = "False"
    /\ display_errors = TRUE
    /\ idx = 1
    /\ calls = [i \in DOMAIN authentication |-> 0]
    /\ actor = Actor("False", 0)
    /\ anonymous = "True"
    /\ steps = {}
    /\ meth_calls = 0
    /\ em_format = ""
    /\ sig = ""
    /\ result = NoResult
    /\ status_code = 0
    /\ outcome = NoResponse
    /\ meth = ""
    /\ range_in = NoRangeIn
    /\ request_range = <<>>
    /\ total = 0
    /\ content_range = <<>>
    /\ meth_outcome = "none"
    /\ render_outcome = "none"
    /\ received \in WideRequests
    /\ request = request_object(received)

SpecRequest == InitRequest /\ [][Next]_vars

\* The block of the arriving request that a block of the request object was
\* made from (coerce_put_post makes PUT from the parsed body).
received_block(b) ==
    IF b = "PUT" THEN received.POST
    ELSE IF b = "DELETE" THEN getattr_block(received, "DELETE")
    ELSE received[b]

\* C11: when the handler method is invoked, no parameter whose key starts
\* with 'oauth_' is in the GET, PUT, POST or DELETE block of the request it
\* is given, nor in the request.data that was bound to the POST or PUT
\* block; every other parameter is still there with its value.
C11_NoOauthReachesHandler ==
    meth_calls >= 1 =>
        /\ \A b \in Blocks :
              request[b] # None =>
                  /\ ~has_oauth(Val(request[b]))
                  /\ \A k \in DOMAIN received_block(b) :
                        ~startswith(k, "oauth_") =>
                            /\ k \in DOMAIN Val(request[b])
                            /\ Val(request[b])[k] = received_block(b)[k]
        /\ request.data_from \in {"POST", "PUT"} =>
              /\ ~has_oauth(Val(request.data))
              /\ \A k \in DOMAIN received.POST :
                    ~startswith(k, "oauth_") =>
                        /\ k \in DOMAIN Val(request.data)
                        /\ Val(request.data)[k] = received.POST[k]

====
